---- MODULE Spec2Model ----
(***************************************************************************)
(* Market data simulator: the server's per-connection Subscribe handler    *)
(* (read loop, producer threads, teardown) of market_data_server.cc and    *)
(* the client's order-book reconciler of market_data_client.cc.            *)
(*                                                                         *)
(* Prices are doubles in the source; the model counts them in tenths       *)
(* (99.5 is 995), quantities are kept as they are.                         *)
(***************************************************************************)
EXTENDS Integers, Sequences, FiniteSets, TLC

\* ------------------------------------------------------------------ bounds
\* requests the read loop decodes on one connection
MaxCmds == 3
\* incremental updates one producer thread writes
MaxTicks == 2

\* instrument identifiers used on the connection (the client's list)
Instr == {"AAPL", "MSFT"}
\* key order of std::map<std::string, ...>
InstrOrder == <<"AAPL", "MSFT">>

VARIABLES
    rpc,            \* position of the read loop / teardown in Subscribe()
    request,        \* SubscriptionRequest last decoded by stream->Read
    update_threads, \* std::map<std::string, std::thread>
    stop_signals,   \* std::map<std::string, std::atomic<bool>>
    ppc,            \* position of each StreamIncrementalUpdates thread
    update_count,   \* local update_count of each producer thread
    cancelled,      \* context->IsCancelled()
    sent,           \* messages written to the stream, in completion order
    cmds,           \* number of requests decoded so far
    serverLog,      \* last line the read loop logged about a request
    started,        \* number of std::thread objects constructed per instrument
    unsubscribes    \* number of UNSUBSCRIBE requests decoded per instrument

svars == <<rpc, request, update_threads, stop_signals, ppc, update_count,
           cancelled, sent, cmds, serverLog, started, unsubscribes>>

VARIABLES
    cpc,               \* position of the client's read loop
    update,            \* MarketDataUpdate filled by stream_->Read
    order_books_bids_, \* std::map<std::string, std::map<double, double>>
    order_books_asks_, \* std::map<std::string, std::map<double, double>>
    clientLog          \* last "Client received ..." line

VARIABLES
    rcvd,              \* messages of the server's stream the client has read
    instrument_ids,    \* the list handed to SubscribeToMarketData
    widx,              \* list elements the writer task's loop has completed
    wpc,               \* position of the writer task
    wire,              \* requests written to stream_, in order
    unsubCalls         \* calls of UnsubscribeFromMarketData so far

wvars == <<instrument_ids, widx, wpc, wire, unsubCalls>>

cvars == <<cpc, update, order_books_bids_, order_books_asks_, clientLog, rcvd,
           wvars>>

vars == <<svars, cvars>>

\* ---------------------------------------------------------------- messages
Level(p, q) == [price |-> p, quantity |-> q]

\* snapshot built at lines 100-119
SnapshotMsg(i) ==
    [type |-> "snapshot", instrument_id |-> i,
     bids |-> <<Level(995, 100), Level(990, 200)>>,
     asks |-> <<Level(1000, 150), Level(1005, 250)>>]

\* empty snapshot built at lines 148-150
UnsubscribeMsg(i) ==
    [type |-> "snapshot", instrument_id |-> i, bids |-> <<>>, asks |-> <<>>]

\* price_change, line 45, in tenths
PriceChange(n) == IF n % 2 = 0 THEN 1 ELSE -1

\* incremental update built at lines 40-53 (bid_updates / ask_updates)
IncrementalMsg(i, n) ==
    [type |-> "incremental", instrument_id |-> i,
     bids |-> <<Level(990 + PriceChange(n), 200 + n * 10)>>,
     asks |-> <<Level(1000 - PriceChange(n), 150 + n * 5)>>]

NoRequest == [action |-> "NONE", instrument_id |-> "NONE"]

\* ------------------------------------------------------------------- Init
ServerInit ==
    /\ rpc = "read"
    /\ request = NoRequest
    /\ update_threads = [i \in {} |-> [joinable |-> FALSE]]
    /\ stop_signals = [i \in {} |-> FALSE]
    /\ ppc = [i \in Instr |-> "none"]
    /\ update_count = [i \in Instr |-> 0]
    /\ cancelled = FALSE
    /\ sent = <<>>
    /\ cmds = 0
    /\ serverLog = "connected"
    /\ started = [i \in Instr |-> 0]
    /\ unsubscribes = [i \in Instr |-> 0]

\* -------------------------------------------------------------- read loop
\* variant of NeedsStart: the already-streaming check is left out
NeedsStartAlways(i) == TRUE

\* variant of NeedsStart: an instrument whose stop signal is set is started
\* again although its thread has not been joined
NeedsStartWhenSignalled(i) ==
    \/ i \notin DOMAIN update_threads
    \/ ~update_threads[i].joinable
    \/ stop_signals[i]

\* line 98: no entry for the instrument, or its thread is not joinable
NeedsStart(i) ==
    \/ i \notin DOMAIN update_threads
    \/ ~update_threads[i].joinable

\* line 140: an entry exists and its thread is joinable
HasJoinable(i) ==
    /\ i \in DOMAIN update_threads
    /\ update_threads[i].joinable

\* lines 90-98, 134-136: Read returns a SUBSCRIBE; either the snapshot is
\* built and Write is entered, or the request is logged as a duplicate
RecvSubscribe(i) ==
    /\ rpc = "read"
    /\ cmds < MaxCmds
    /\ cmds' = cmds + 1
    /\ request' = [action |-> "SUBSCRIBE", instrument_id |-> i]
    /\ IF NeedsStart(i)
       THEN rpc' = "write_snapshot" /\ serverLog' = "received"
       ELSE rpc' = "read" /\ serverLog' = "already_streaming"
    /\ UNCHANGED <<cvars, update_threads, stop_signals, ppc, update_count,
                   cancelled, sent, started, unsubscribes>>

\* variant of SnapshotWriteReturn: the result of Write is not looked at, the
\* thread is started whether or not the snapshot went out
SnapshotWriteReturnUnchecked(ok) ==
    /\ rpc = "write_snapshot"
    /\ IF ok
       THEN /\ sent' = Append(sent, SnapshotMsg(request.instrument_id))
            /\ serverLog' = "sent_snapshot"
       ELSE /\ sent' = sent
            /\ serverLog' = "failed_snapshot"
    /\ rpc' = "start_thread"
    /\ UNCHANGED <<cvars, request, update_threads, stop_signals, ppc, update_count,
                   cancelled, cmds, started, unsubscribes>>

\* variant of SnapshotWriteReturn: a failed Write is logged and the read loop
\* goes on reading
SnapshotWriteReturnContinues(ok) ==
    /\ rpc = "write_snapshot"
    /\ IF ok
       THEN /\ sent' = Append(sent, SnapshotMsg(request.instrument_id))
            /\ serverLog' = "sent_snapshot"
            /\ rpc' = "start_thread"
       ELSE /\ sent' = sent
            /\ serverLog' = "failed_snapshot"
            /\ rpc' = "read"
    /\ UNCHANGED <<cvars, request, update_threads, stop_signals, ppc, update_count,
                   cancelled, cmds, started, unsubscribes>>

\* stream->Write is a blocking call and nothing in the server guards it: the
\* model enters it in one step and returns from it in another, so that other
\* threads run in between. A message is appended to sent when its Write
\* returns true. Writes that overlap each either go out or fail, in either
\* order; a failing Write (ok = FALSE) is possible at every call.

\* lines 121-127: stream->Write(snapshot_update) returns
SnapshotWriteReturn(ok) ==
    /\ rpc = "write_snapshot"
    /\ IF ok
       THEN /\ sent' = Append(sent, SnapshotMsg(request.instrument_id))
            /\ serverLog' = "sent_snapshot"
            /\ rpc' = "start_thread"
       ELSE /\ sent' = sent
            /\ serverLog' = "failed_snapshot"
            /\ rpc' = "signal_all"
    /\ UNCHANGED <<cvars, request, update_threads, stop_signals, ppc, update_count,
                   cancelled, cmds, started, unsubscribes>>

\* lines 130-132: the stop signal is initialised and the thread is created
StartThread ==
    /\ rpc = "start_thread"
    /\ LET i == request.instrument_id IN
        /\ stop_signals' = (i :> FALSE) @@ stop_signals
        /\ update_threads' = (i :> [joinable |-> TRUE]) @@ update_threads
        /\ ppc' = [ppc EXCEPT ![i] = "check"]
        /\ update_count' = [update_count EXCEPT ![i] = 0]
        /\ started' = [started EXCEPT ![i] = @ + 1]
    /\ rpc' = "read"
    /\ UNCHANGED <<cvars, request, cancelled, sent, cmds, serverLog, unsubscribes>>

\* variant of RecvUnsubscribe: the stop signal is stored without looking for
\* a thread, which creates the map entry when there is none
RecvUnsubscribeAlwaysSignals(i) ==
    /\ rpc = "read"
    /\ cmds < MaxCmds
    /\ cmds' = cmds + 1
    /\ request' = [action |-> "UNSUBSCRIBE", instrument_id |-> i]
    /\ stop_signals' = (i :> TRUE) @@ stop_signals
    /\ serverLog' = "signaling_stop"
    /\ unsubscribes' = [unsubscribes EXCEPT ![i] = @ + 1]
    /\ rpc' = "write_unsubscribe"
    /\ UNCHANGED <<cvars, update_threads, ppc, update_count, cancelled, sent,
                   started>>

\* variant of RecvUnsubscribe: the empty snapshot is written only when a
\* thread was signalled
RecvUnsubscribeAckIfRunning(i) ==
    /\ rpc = "read"
    /\ cmds < MaxCmds
    /\ cmds' = cmds + 1
    /\ request' = [action |-> "UNSUBSCRIBE", instrument_id |-> i]
    /\ IF HasJoinable(i)
       THEN /\ stop_signals' = [stop_signals EXCEPT ![i] = TRUE]
            /\ serverLog' = "signaling_stop"
            /\ rpc' = "write_unsubscribe"
       ELSE /\ stop_signals' = stop_signals
            /\ serverLog' = "received"
            /\ rpc' = "read"
    /\ unsubscribes' = [unsubscribes EXCEPT ![i] = @ + 1]
    /\ UNCHANGED <<cvars, update_threads, ppc, update_count, cancelled, sent,
                   started>>

\* lines 138-150: Read returns an UNSUBSCRIBE; the stop signal is set when a
\* joinable thread exists, then Write of the empty snapshot is entered
RecvUnsubscribe(i) ==
    /\ rpc = "read"
    /\ cmds < MaxCmds
    /\ cmds' = cmds + 1
    /\ request' = [action |-> "UNSUBSCRIBE", instrument_id |-> i]
    /\ IF HasJoinable(i)
       THEN /\ stop_signals' = [stop_signals EXCEPT ![i] = TRUE]
            /\ serverLog' = "signaling_stop"
       ELSE /\ stop_signals' = stop_signals
            /\ serverLog' = "received"
    /\ unsubscribes' = [unsubscribes EXCEPT ![i] = @ + 1]
    /\ rpc' = "write_unsubscribe"
    /\ UNCHANGED <<cvars, update_threads, ppc, update_count, cancelled, sent,
                   started>>

\* lines 152-158: stream->Write(unsubscribe_update) returns
UnsubscribeWriteReturn(ok) ==
    /\ rpc = "write_unsubscribe"
    /\ IF ok
       THEN /\ sent' = Append(sent, UnsubscribeMsg(request.instrument_id))
            /\ serverLog' = "sent_empty_snapshot"
            /\ rpc' = "read"
       ELSE /\ sent' = sent
            /\ serverLog' = "failed_empty_snapshot"
            /\ rpc' = "signal_all"
    /\ UNCHANGED <<cvars, request, update_threads, stop_signals, ppc, update_count,
                   cancelled, cmds, started, unsubscribes>>

\* line 90: stream->Read returns false (peer closed, or the call is broken)
ReadFails ==
    /\ rpc = "read"
    /\ rpc' = "signal_all"
    /\ UNCHANGED <<cvars, request, update_threads, stop_signals, ppc, update_count,
                   cancelled, sent, cmds, serverLog, started, unsubscribes>>

\* --------------------------------------------------------------- teardown
\* lines 166-168: every stop signal of the connection is set
SignalAll ==
    /\ rpc = "signal_all"
    /\ stop_signals' = [i \in DOMAIN stop_signals |-> TRUE]
    /\ rpc' = "join"
    /\ UNCHANGED <<cvars, request, update_threads, ppc, update_count, cancelled,
                   sent, cmds, serverLog, started, unsubscribes>>

\* variant of ThreadFinished: the thread is let go without waiting for it
ThreadFinishedDetached(i) == TRUE

\* the thread function of i has returned, which is what join() waits for
ThreadFinished(i) == ppc[i] = "exited"

\* first joinable entry in key order, 0 when there is none
NextJoinable ==
    LET J == {k \in 1..Len(InstrOrder) : HasJoinable(InstrOrder[k])}
    IN IF J = {} THEN 0 ELSE CHOOSE k \in J : \A m \in J : k <= m

\* lines 171-175: the joinable threads are joined in key order
JoinNext ==
    /\ rpc = "join"
    /\ NextJoinable # 0
    /\ LET i == InstrOrder[NextJoinable] IN
        /\ ThreadFinished(i)
        /\ update_threads' = [update_threads EXCEPT ![i].joinable = FALSE]
    /\ UNCHANGED <<cvars, rpc, request, stop_signals, ppc, update_count, cancelled,
                   sent, cmds, serverLog, started, unsubscribes>>

\* lines 177-179: all threads joined, the handler returns Status::OK
Return ==
    /\ rpc = "join"
    /\ NextJoinable = 0
    /\ rpc' = "done"
    /\ UNCHANGED <<cvars, request, update_threads, stop_signals, ppc, update_count,
                   cancelled, sent, cmds, serverLog, started, unsubscribes>>

\* --------------------------------------------------------------- producer
\* variant of ProducerCheck: the loop condition looks at the cancellation of
\* the call only, not at the stop signal
ProducerCheckIgnoresStop(i) ==
    /\ ppc[i] = "check"
    /\ IF ~cancelled
       THEN /\ update_count[i] < MaxTicks
            /\ ppc' = [ppc EXCEPT ![i] = "write"]
       ELSE ppc' = [ppc EXCEPT ![i] = "exited"]
    /\ UNCHANGED <<cvars, rpc, request, update_threads, stop_signals, update_count,
                   cancelled, sent, cmds, serverLog, started, unsubscribes>>

\* line 39: the loop condition of StreamIncrementalUpdates; when it holds the
\* update is built (lines 40-53) and Write is entered
ProducerCheck(i) ==
    /\ ppc[i] = "check"
    /\ IF ~stop_signals[i] /\ ~cancelled
       THEN /\ update_count[i] < MaxTicks
            /\ ppc' = [ppc EXCEPT ![i] = "write"]
       ELSE ppc' = [ppc EXCEPT ![i] = "exited"]
    /\ UNCHANGED <<cvars, rpc, request, update_threads, stop_signals, update_count,
                   cancelled, sent, cmds, serverLog, started, unsubscribes>>

\* variant of ProducerWriteReturn: after a failed Write the loop goes round
\* again
ProducerWriteReturnRetries(i, ok) ==
    /\ ppc[i] = "write"
    /\ IF ok
       THEN /\ sent' = Append(sent, IncrementalMsg(i, update_count[i]))
            /\ update_count' = [update_count EXCEPT ![i] = @ + 1]
            /\ ppc' = [ppc EXCEPT ![i] = "sleep"]
       ELSE /\ sent' = sent
            /\ update_count' = update_count
            /\ ppc' = [ppc EXCEPT ![i] = "check"]
    /\ UNCHANGED <<cvars, rpc, request, update_threads, stop_signals, cancelled,
                   cmds, serverLog, started, unsubscribes>>

\* variant of ProducerWriteReturn: update_count is not advanced
ProducerWriteReturnNoCount(i, ok) ==
    /\ ppc[i] = "write"
    /\ IF ok
       THEN /\ sent' = Append(sent, IncrementalMsg(i, update_count[i]))
            /\ ppc' = [ppc EXCEPT ![i] = "sleep"]
       ELSE /\ sent' = sent
            /\ ppc' = [ppc EXCEPT ![i] = "exited"]
    /\ UNCHANGED <<cvars, rpc, request, update_threads, stop_signals,
                   update_count, cancelled, cmds, serverLog, started,
                   unsubscribes>>

\* lines 56-61: stream->Write(update) returns
ProducerWriteReturn(i, ok) ==
    /\ ppc[i] = "write"
    /\ IF ok
       THEN /\ sent' = Append(sent, IncrementalMsg(i, update_count[i]))
            /\ update_count' = [update_count EXCEPT ![i] = @ + 1]
            /\ ppc' = [ppc EXCEPT ![i] = "sleep"]
       ELSE /\ sent' = sent
            /\ update_count' = update_count
            /\ ppc' = [ppc EXCEPT ![i] = "exited"]
    /\ UNCHANGED <<cvars, rpc, request, update_threads, stop_signals, cancelled,
                   cmds, serverLog, started, unsubscribes>>

\* line 62: the one-second sleep ends
ProducerWake(i) ==
    /\ ppc[i] = "sleep"
    /\ ppc' = [ppc EXCEPT ![i] = "check"]
    /\ UNCHANGED <<cvars, rpc, request, update_threads, stop_signals, update_count,
                   cancelled, sent, cmds, serverLog, started, unsubscribes>>

\* the call is cancelled (by the peer or the transport) while the handler runs
Cancel ==
    /\ ~cancelled
    /\ rpc # "done"
    /\ cancelled' = TRUE
    /\ UNCHANGED <<cvars, rpc, request, update_threads, stop_signals, ppc,
                   update_count, sent, cmds, serverLog, started, unsubscribes>>

\* ------------------------------------------------------ client reconciler
\* levels per message (bids and asks together) the client is fed
MaxLevels == 2

BidPrices == {990, 995}
AskPrices == {1000}
Quantities == {0, 100}

BidLevels == {Level(p, q) : p \in BidPrices, q \in Quantities}
AskLevels == {Level(p, q) : p \in AskPrices, q \in Quantities}

LevelLists(S, n) == UNION {[1..k -> S] : k \in 0..n}

\* the (bids, asks) pairs a message may carry
LevelPairs ==
    {pr \in LevelLists(BidLevels, MaxLevels) \X LevelLists(AskLevels, MaxLevels) :
        Len(pr[1]) + Len(pr[2]) <= MaxLevels}

\* messages stream_->Read may deliver to the client
Inputs ==
    {[type |-> t, instrument_id |-> i, bids |-> pr[1], asks |-> pr[2]] :
        t \in {"snapshot", "incremental"}, i \in Instr, pr \in LevelPairs}

NoUpdate == [type |-> "none", instrument_id |-> "NONE", bids |-> <<>>, asks |-> <<>>]
NoLog == [type |-> "none", instrument_id |-> "NONE"]

\* an empty std::map<double, double>
EmptySide == [p \in {} |-> 0]

ClientInit ==
    /\ cpc = "read"
    /\ update = NoUpdate
    /\ order_books_bids_ = [i \in {} |-> EmptySide]
    /\ order_books_asks_ = [i \in {} |-> EmptySide]
    /\ clientLog = NoLog

\* std::map::operator[] on the outer map: the entry, default-constructed when
\* the key is absent
Entry(books, i) == IF i \in DOMAIN books THEN books[i] ELSE EmptySide

\* the outer map after operator[] produced the entry and it was given a value
Store(books, i, side) == (i :> side) @@ books

\* variant of ClearSide: the old levels are kept
ClearSideKeeps(side) == side

\* lines 83-84: clear()
ClearSide(side) == EmptySide

\* lines 87, 90, 104, 113: side[price] = quantity
SetLevel(side, l) == (l.price :> l.quantity) @@ side

\* variant of EraseLevel: nothing is erased
EraseLevelKeeps(side, p) == side

\* lines 107, 116: side.erase(price)
EraseLevel(side, p) == [q \in DOMAIN side \ {p} |-> side[q]]

\* lines 86-91: the snapshot's levels are stored in order
RECURSIVE InsertAll(_, _)
InsertAll(side, levels) ==
    IF levels = <<>> THEN side
    ELSE InsertAll(SetLevel(side, Head(levels)), Tail(levels))

\* lines 102-118: the changed levels are applied in order
RECURSIVE ApplyUpdates(_, _)
ApplyUpdates(side, levels) ==
    IF levels = <<>> THEN side
    ELSE ApplyUpdates(IF Head(levels).quantity > 0
                      THEN SetLevel(side, Head(levels))
                      ELSE EraseLevel(side, Head(levels).price),
                      Tail(levels))

\* lines 83-91 on one of the two outer maps
SnapshotApplied(books, i, levels) ==
    Store(books, i, InsertAll(ClearSide(Entry(books, i)), levels))

\* lines 102-118 on one of the two outer maps
IncrementalApplied(books, i, levels) ==
    Store(books, i, ApplyUpdates(Entry(books, i), levels))

\* line 75: stream_->Read(&update) returns true
ClientRead(m) ==
    /\ cpc = "read"
    /\ update' = m
    /\ cpc' = "apply"
    /\ UNCHANGED <<svars, order_books_bids_, order_books_asks_, clientLog,
                   rcvd, wvars>>

\* lines 77-93: the snapshot branch. update is not read again before the next
\* Read overwrites it, so the model resets it.
ClientApplySnapshot ==
    /\ cpc = "apply"
    /\ update.type = "snapshot"
    /\ clientLog' = [type |-> "snapshot", instrument_id |-> update.instrument_id]
    /\ order_books_bids_' =
           SnapshotApplied(order_books_bids_, update.instrument_id, update.bids)
    /\ order_books_asks_' =
           SnapshotApplied(order_books_asks_, update.instrument_id, update.asks)
    /\ update' = NoUpdate
    /\ cpc' = "read"
    /\ UNCHANGED <<svars, rcvd, wvars>>

\* lines 95-121: the incremental branch
ClientApplyIncremental ==
    /\ cpc = "apply"
    /\ update.type = "incremental"
    /\ clientLog' = [type |-> "incremental", instrument_id |-> update.instrument_id]
    /\ order_books_bids_' =
           IncrementalApplied(order_books_bids_, update.instrument_id, update.bids)
    /\ order_books_asks_' =
           IncrementalApplied(order_books_asks_, update.instrument_id, update.asks)
    /\ update' = NoUpdate
    /\ cpc' = "read"
    /\ UNCHANGED <<svars, rcvd, wvars>>

\* lines 75, 124: stream_->Read returns false
ClientReadEnds ==
    /\ cpc = "read"
    /\ cpc' = "finished"
    /\ UNCHANGED <<svars, update, order_books_bids_, order_books_asks_, clientLog,
                   rcvd, wvars>>

\* line 75 with the server on the other end: Read delivers the next message
\* of the server's stream (the transport keeps the send order)
ClientReadWire ==
    /\ cpc = "read"
    /\ rcvd < Len(sent)
    /\ rcvd' = rcvd + 1
    /\ update' = sent[rcvd + 1]
    /\ cpc' = "apply"
    /\ UNCHANGED <<svars, order_books_bids_, order_books_asks_, clientLog, wvars>>

\* --------------------------------------------------- client command sender
\* length of the list handed to SubscribeToMarketData
MaxIds == 3
\* calls of UnsubscribeFromMarketData on one stream
MaxUnsubCalls == 1

\* lines 172, 176: the list main() subscribes to
MainList == <<"AAPL", "MSFT">>

SubscribeRequest(i) == [action |-> "SUBSCRIBE", instrument_id |-> i]
UnsubscribeRequest(i) == [action |-> "UNSUBSCRIBE", instrument_id |-> i]

\* lines 54-58: the stream is open and the writer task starts its loop
SenderInit(ids) ==
    /\ rcvd = 0
    /\ instrument_ids = ids
    /\ widx = 0
    /\ wpc = "send"
    /\ wire = <<>>
    /\ unsubCalls = 0

\* variant of WriterSend: a failed Write is logged and the loop goes on
WriterSendNoBreak(ok) ==
    /\ wpc = "send"
    /\ widx < Len(instrument_ids)
    /\ wire' = IF ok
               THEN Append(wire, SubscribeRequest(instrument_ids[widx + 1]))
               ELSE wire
    /\ wpc' = "sleep"
    /\ UNCHANGED <<svars, cpc, update, order_books_bids_, order_books_asks_,
                   clientLog, rcvd, instrument_ids, widx, unsubCalls>>

\* lines 59-67: the request for the next list element is built and
\* stream_->Write returns; a failed Write breaks out of the loop
WriterSend(ok) ==
    /\ wpc = "send"
    /\ widx < Len(instrument_ids)
    /\ IF ok
       THEN /\ wire' = Append(wire, SubscribeRequest(instrument_ids[widx + 1]))
            /\ wpc' = "sleep"
       ELSE /\ wire' = wire
            /\ wpc' = "finished"
    /\ UNCHANGED <<svars, cpc, update, order_books_bids_, order_books_asks_,
                   clientLog, rcvd, instrument_ids, widx, unsubCalls>>

\* line 68: the 100 ms sleep ends and the loop moves to the next element
WriterWake ==
    /\ wpc = "sleep"
    /\ widx' = widx + 1
    /\ wpc' = "send"
    /\ UNCHANGED <<svars, cpc, update, order_books_bids_, order_books_asks_,
                   clientLog, rcvd, instrument_ids, wire, unsubCalls>>

\* lines 59, 70: the list is exhausted, the writer task finishes
WriterFinish ==
    /\ wpc = "send"
    /\ widx = Len(instrument_ids)
    /\ wpc' = "finished"
    /\ UNCHANGED <<svars, cpc, update, order_books_bids_, order_books_asks_,
                   clientLog, rcvd, instrument_ids, widx, wire, unsubCalls>>

\* lines 136-151: UnsubscribeFromMarketData on the open stream
CallUnsubscribe(i, ok) ==
    /\ unsubCalls < MaxUnsubCalls
    /\ unsubCalls' = unsubCalls + 1
    /\ wire' = IF ok THEN Append(wire, UnsubscribeRequest(i)) ELSE wire
    /\ UNCHANGED <<svars, cpc, update, order_books_bids_, order_books_asks_,
                   clientLog, rcvd, instrument_ids, widx, wpc>>

\* ---------------------------------------------------------- specification
Init == ServerInit /\ ClientInit /\ SenderInit(MainList)

ClientNext ==
    \/ \E m \in Inputs : ClientRead(m)
    \/ ClientApplySnapshot
    \/ ClientApplyIncremental
    \/ ClientReadEnds

\* the reconciler alone, fed any message of Inputs
ClientSpec == Init /\ [][ClientNext]_vars

Next ==
    \/ \E i \in Instr : RecvSubscribe(i)
    \/ \E ok \in BOOLEAN : SnapshotWriteReturn(ok)
    \/ StartThread
    \/ \E i \in Instr : RecvUnsubscribe(i)
    \/ \E ok \in BOOLEAN : UnsubscribeWriteReturn(ok)
    \/ ReadFails
    \/ SignalAll
    \/ JoinNext
    \/ Return
    \/ \E i \in Instr : ProducerCheck(i)
    \/ \E i \in Instr, ok \in BOOLEAN : ProducerWriteReturn(i, ok)
    \/ \E i \in Instr : ProducerWake(i)
    \/ Cancel

Spec == Init /\ [][Next]_vars

\* the scheduler runs every thread that can take a step, and every Write
\* call returns
Fairness ==
    /\ WF_vars(SignalAll)
    /\ WF_vars(JoinNext)
    /\ WF_vars(Return)
    /\ \A i \in Instr :
          /\ WF_vars(ProducerCheck(i))
          /\ WF_vars(\E ok \in BOOLEAN : ProducerWriteReturn(i, ok))
          /\ WF_vars(ProducerWake(i))

FairSpec == Spec /\ Fairness

\* server and client reconciler on one connection
E2ENext ==
    \/ Next
    \/ ClientReadWire
    \/ ClientApplySnapshot
    \/ ClientApplyIncremental

E2ESpec == Init /\ [][E2ENext]_vars

\* the command sender alone, for any list of at most MaxIds instruments
SenderInit0 ==
    /\ ServerInit
    /\ ClientInit
    /\ \E ids \in UNION {[1..n -> Instr] : n \in 0..MaxIds} : SenderInit(ids)

SenderNext ==
    \/ \E ok \in BOOLEAN : WriterSend(ok)
    \/ WriterWake
    \/ WriterFinish
    \/ \E i \in Instr, ok \in BOOLEAN : CallUnsubscribe(i, ok)

SenderSpec == SenderInit0 /\ [][SenderNext]_vars

\* ================================================================= claims
\* indices of sent holding message m
Positions(m) == {k \in 1..Len(sent) : sent[k] = m}

\* number of fixture snapshots for i in a send log
NumSnapshots(log, i) == Cardinality({k \in 1..Len(log) : log[k] = SnapshotMsg(i)})

\* number of empty snapshots for i in a send log
NumAcks(log, i) == Cardinality({k \in 1..Len(log) : log[k] = UnsubscribeMsg(i)})

\* the step in which the read loop decodes a SUBSCRIBE for i
SubscribeStep(i) ==
    /\ rpc = "read"
    /\ cmds' = cmds + 1
    /\ request' = [action |-> "SUBSCRIBE", instrument_id |-> i]

\* writers that are inside stream->Write
Writers ==
    (IF rpc \in {"write_snapshot", "write_unsubscribe"} THEN {"read_loop"} ELSE {})
    \cup {i \in Instr : ppc[i] = "write"}

\* C1: a SUBSCRIBE for an instrument that is Active (a producer was started
\* for it and no UNSUBSCRIBE for it was processed since) is a no-op: the read
\* loop goes back to Read without entering Write and without starting a
\* thread, and the instrument's snapshot count and producer count are both
\* exactly one before and after.
C1_DuplicateSubscribeIsNoOp ==
    [][\A i \in Instr :
          (SubscribeStep(i) /\ started[i] >= 1 /\ ~stop_signals[i])
          => /\ rpc' = "read"
             /\ sent' = sent
             /\ started' = started
             /\ update_threads' = update_threads
             /\ ppc' = ppc
             /\ stop_signals' = stop_signals
             /\ started'[i] = 1
             /\ NumSnapshots(sent', i) = 1]_vars

\* a duplicate SUBSCRIBE for an Active instrument has just been processed
C1_Witness ==
    /\ rpc = "read"
    /\ serverLog = "already_streaming"
    /\ request.action = "SUBSCRIBE"
    /\ started[request.instrument_id] = 1
    /\ ~stop_signals[request.instrument_id]
    /\ ppc[request.instrument_id] \in {"check", "write", "sleep"}

\* C2: a SUBSCRIBE for an instrument whose producer was stopped by an
\* UNSUBSCRIBE and has exited is handled as Idle to Active: the read loop goes
\* on to write the snapshot (and then starts a producer).
C2_ResubscribeAfterExitRestarts ==
    [][\A i \in Instr :
          (SubscribeStep(i) /\ started[i] >= 1 /\ stop_signals[i]
                            /\ ppc[i] = "exited")
          => rpc' = "write_snapshot"]_vars

\* C3: at most one write to the stream is in progress.
C3_WritesSerialized == Cardinality(Writers) <= 1

\* C4: every UNSUBSCRIBE the read loop decoded for i is matched by exactly one
\* empty snapshot for i in the send log, apart from the one whose Write is in
\* progress and the one whose Write failed (which ended the read loop),
\* whether or not i had a producer; and once the read loop is in that Write
\* its return waits for nothing, whatever the producers are doing.
C4_OneAckPerUnsubscribe ==
    /\ rpc = "write_unsubscribe" => ENABLED UnsubscribeWriteReturn(TRUE)
    /\ \A i \in Instr :
           LET pending == IF rpc = "write_unsubscribe" /\ request.instrument_id = i
                          THEN 1 ELSE 0
               failed == IF serverLog = "failed_empty_snapshot"
                            /\ request.instrument_id = i
                         THEN 1 ELSE 0
           IN NumAcks(sent, i) + pending + failed = unsubscribes[i]

\* one acknowledgement went out for an instrument that was never subscribed,
\* and one for an instrument whose producer has been signalled and is still
\* running
C4_Witness ==
    \E i, j \in Instr :
        /\ started[i] = 0 /\ unsubscribes[i] = 1 /\ NumAcks(sent, i) = 1
        /\ started[j] = 1 /\ unsubscribes[j] = 1 /\ NumAcks(sent, j) = 1
        /\ stop_signals[j]
        /\ ppc[j] \in {"check", "write", "sleep"}

\* C5: after the empty snapshot for i no message for i follows in the send
\* log; stated for the producer's messages: no incremental update for i stands
\* behind an empty snapshot for i.
C5_NoIncrementalAfterAck ==
    \A k, m \in 1..Len(sent) :
        (k < m /\ sent[k] = UnsubscribeMsg(sent[m].instrument_id))
        => sent[m].type # "incremental"

\* C6: when the handler has returned, every thread that was started has run
\* to its end and has been joined.
C6_NoProducerAfterReturn ==
    rpc = "done" =>
        \A i \in Instr :
            /\ started[i] = 0 => ppc[i] = "none"
            /\ started[i] > 0 =>
                  /\ ppc[i] = "exited"
                  /\ i \in DOMAIN update_threads
                  /\ ~update_threads[i].joinable

\* the handler returned on a connection that had a producer per instrument
C6_Witness ==
    /\ rpc = "done"
    /\ \A i \in Instr : started[i] = 1 /\ ppc[i] = "exited"

\* C7: every incremental update for i in the send log stands behind the
\* fixture snapshot for i.
C7_SnapshotBeforeIncremental ==
    \A m \in 1..Len(sent) :
        sent[m].type = "incremental"
        => \E k \in 1..(m - 1) : sent[k] = SnapshotMsg(sent[m].instrument_id)

\* both instruments have an incremental update in the send log
C7_Witness ==
    \A i \in Instr : Positions(IncrementalMsg(i, 0)) # {}

\* the step in which the client applies the message held in update
ApplyStep(t) == cpc = "apply" /\ update.type = t /\ cpc' = "read"

\* prices named by a list of levels
PricesOf(levels) == {levels[k].price : k \in 1..Len(levels)}

\* quantity of the last level of the list that names price p
LastQuantity(levels, p) ==
    LET k == CHOOSE n \in 1..Len(levels) :
                 /\ levels[n].price = p
                 /\ \A m \in (n + 1)..Len(levels) : levels[m].price # p
    IN levels[k].quantity

\* what the claim C9 asks of one side after the changed levels were applied
IncrementalPost(pre, post, levels) ==
    /\ \A p \in PricesOf(levels) :
          IF LastQuantity(levels, p) = 0
          THEN p \notin DOMAIN post
          ELSE p \in DOMAIN post /\ post[p] = LastQuantity(levels, p)
    /\ \A p \in (DOMAIN pre \cup DOMAIN post) \ PricesOf(levels) :
          p \in DOMAIN pre /\ p \in DOMAIN post /\ post[p] = pre[p]

\* what the claim C10 asks of one side after a snapshot was applied
SnapshotPost(post, levels) ==
    /\ DOMAIN post = PricesOf(levels)
    /\ \A p \in PricesOf(levels) : post[p] = LastQuantity(levels, p)

\* C8: an incremental update for an instrument the client holds no book of is
\* ignored: no book is created for it and no book changes.
C8_UnknownInstrumentIgnored ==
    [][(ApplyStep("incremental")
          /\ update.instrument_id \notin DOMAIN order_books_bids_
          /\ update.instrument_id \notin DOMAIN order_books_asks_)
       => /\ order_books_bids_' = order_books_bids_
          /\ order_books_asks_' = order_books_asks_]_vars

\* C9: after an incremental update is applied, every price it names is absent
\* when the last level naming it has quantity 0 and otherwise present with
\* that level's quantity; prices it does not name keep their state (erasing
\* an absent price changes nothing).
C9_IncrementalSemantics ==
    [][ApplyStep("incremental")
       => LET i == update.instrument_id IN
          /\ i \in DOMAIN order_books_bids_'
          /\ i \in DOMAIN order_books_asks_'
          /\ IncrementalPost(Entry(order_books_bids_, i), order_books_bids_'[i],
                             update.bids)
          /\ IncrementalPost(Entry(order_books_asks_, i), order_books_asks_'[i],
                             update.asks)]_vars

\* an incremental update has been applied to a book that now holds one bid
\* price and lacks the other
C9_Witness ==
    /\ cpc = "read"
    /\ clientLog.type = "incremental"
    /\ clientLog.instrument_id \in DOMAIN order_books_bids_
    /\ Cardinality(DOMAIN order_books_bids_[clientLog.instrument_id]) = 1
    /\ \E p \in BidPrices : order_books_bids_[clientLog.instrument_id][p] = 100

\* C10: applying a snapshot leaves both sides holding exactly the snapshot's
\* levels whatever they held before, and applying the same snapshot to the
\* result changes nothing.
C10_SnapshotReplacesAndIsIdempotent ==
    [][ApplyStep("snapshot")
       => LET i == update.instrument_id IN
          /\ i \in DOMAIN order_books_bids_'
          /\ i \in DOMAIN order_books_asks_'
          /\ SnapshotPost(order_books_bids_'[i], update.bids)
          /\ SnapshotPost(order_books_asks_'[i], update.asks)
          /\ SnapshotApplied(order_books_bids_', i, update.bids) = order_books_bids_'
          /\ SnapshotApplied(order_books_asks_', i, update.asks) = order_books_asks_'
          /\ \A j \in DOMAIN order_books_bids_ \ {i} :
                order_books_bids_'[j] = order_books_bids_[j]
          /\ \A j \in DOMAIN order_books_asks_ \ {i} :
                order_books_asks_'[j] = order_books_asks_[j]]_vars

\* a snapshot has been applied and left a book with levels on both sides
C10_Witness ==
    /\ cpc = "read"
    /\ clientLog.type = "snapshot"
    /\ order_books_bids_[clientLog.instrument_id] # EmptySide
    /\ order_books_asks_[clientLog.instrument_id] # EmptySide

\* C11: no bid or ask level of any book the client holds has quantity <= 0.
C11_NoNonPositiveQuantity ==
    /\ \A i \in DOMAIN order_books_bids_ :
          \A p \in DOMAIN order_books_bids_[i] : order_books_bids_[i][p] > 0
    /\ \A i \in DOMAIN order_books_asks_ :
          \A p \in DOMAIN order_books_asks_[i] : order_books_asks_[i][p] > 0

\* the step in which the read loop creates the thread for i
StartStep(i) == started'[i] = started[i] + 1

\* C12: a thread for i is created only when i has no thread that is running
\* or un-joined, so at most one producer per instrument is live and at most
\* one std::thread per instrument awaits its join.
C12_OneProducerPerInstrument ==
    [][\A i \in Instr :
          StartStep(i)
          => /\ ~HasJoinable(i)
             /\ ppc[i] \in {"none", "exited"}
             /\ ppc'[i] = "check"]_vars

\* an instrument was subscribed, unsubscribed and subscribed again, and its
\* one producer is still running
C12_Witness ==
    \E i \in Instr :
        /\ cmds >= 3
        /\ unsubscribes[i] >= 1
        /\ request = [action |-> "SUBSCRIBE", instrument_id |-> i]
        /\ started[i] = 1
        /\ ppc[i] \in {"check", "write", "sleep"}

\* positions of sent holding an incremental update for i, in send order
IncrementalPositions(i) ==
    {k \in 1..Len(sent) :
        sent[k].type = "incremental" /\ sent[k].instrument_id = i}

\* how many incremental updates for i stand before position k
Rank(i, k) == Cardinality({m \in IncrementalPositions(i) : m < k})

\* C13: the snapshot written for a SUBSCRIBE carries bids 99.5x100, 99.0x200
\* and asks 100.0x150, 100.5x250, and the n-th incremental update for the
\* instrument (n = 0, 1, ...) carries one bid and one ask, with bid price
\* 99.0 + nudge and ask price 100.0 - nudge, nudge +0.1 for even n and -0.1
\* for odd n, and quantities 200 + 10n and 150 + 5n, both positive.
C13_FixtureContents ==
    \A i \in Instr :
        /\ \A k \in 1..Len(sent) :
              (sent[k].type = "snapshot" /\ sent[k].instrument_id = i
                  /\ sent[k].bids # <<>>)
              => /\ sent[k].bids = <<[price |-> 995, quantity |-> 100],
                                     [price |-> 990, quantity |-> 200]>>
                 /\ sent[k].asks = <<[price |-> 1000, quantity |-> 150],
                                     [price |-> 1005, quantity |-> 250]>>
        /\ \A k \in IncrementalPositions(i) :
              LET n == Rank(i, k)
                  nudge == 1 - 2 * (n % 2)
              IN /\ Len(sent[k].bids) = 1
                 /\ Len(sent[k].asks) = 1
                 /\ sent[k].bids[1].price = 990 + nudge
                 /\ sent[k].asks[1].price = 1000 - nudge
                 /\ sent[k].bids[1].quantity = 200 + 10 * n
                 /\ sent[k].asks[1].quantity = 150 + 5 * n
                 /\ sent[k].bids[1].quantity > 0
                 /\ sent[k].asks[1].quantity > 0

\* after one SUBSCRIBE the snapshot and two incremental updates, one with
\* each nudge, have been written
C13_Witness ==
    \E i \in Instr :
        /\ cmds = 1
        /\ Len(sent) = 3
        /\ sent[1].type = "snapshot" /\ sent[1].instrument_id = i
        /\ Cardinality(IncrementalPositions(i)) = 2
        /\ sent[2].bids[1].price = 991
        /\ sent[3].bids[1].price = 989

\* positions of the handler from which no request is read any more
Teardown == {"signal_all", "join", "done"}

\* C14: when the Write of the snapshot for a SUBSCRIBE fails, the read loop
\* ends at once and teardown begins: no thread is created for the instrument,
\* and from then on no request is decoded and no thread is started.
C14_SnapshotFailureEndsReadLoop ==
    [][/\ (rpc = "write_snapshot" /\ serverLog' = "failed_snapshot")
          => /\ rpc' = "signal_all"
             /\ started' = started
             /\ update_threads' = update_threads
             /\ stop_signals' = stop_signals
             /\ ppc' = ppc
       /\ serverLog = "failed_snapshot"
          => /\ rpc \in Teardown
             /\ rpc' \in Teardown
             /\ cmds' = cmds
             /\ request' = request
             /\ started' = started
             /\ ppc'[request.instrument_id] = "none"]_vars

\* the snapshot Write for the second instrument failed and the handler has
\* returned after joining the first instrument's producer
C14_Witness ==
    /\ serverLog = "failed_snapshot"
    /\ rpc = "done"
    /\ started[request.instrument_id] = 0
    /\ \E j \in Instr : started[j] = 1 /\ ppc[j] = "exited"

\* producer threads that have been started and have not returned
Live(i) == ppc[i] \in {"check", "write", "sleep"}

\* C15: a producer whose Write fails (it leaves Write and nothing was added to
\* the send log) has terminated; the step changes nothing of the read loop, of
\* the stop signals or of the other producers, and a terminated producer does
\* nothing more.
C15_ProducerStopsOnWriteFailure ==
    [][\A i \in Instr :
          /\ (ppc[i] = "write" /\ ppc'[i] # "write" /\ sent' = sent)
             => /\ ppc'[i] = "exited"
                /\ rpc' = rpc
                /\ stop_signals' = stop_signals
                /\ update_threads' = update_threads
                /\ cancelled' = cancelled
                /\ \A j \in Instr \ {i} : ppc'[j] = ppc[j]
          /\ ppc[i] = "exited"
             => /\ ppc'[i] = "exited"
                /\ update_count'[i] = update_count[i]
                /\ IncrementalPositions(i)' = IncrementalPositions(i)]_vars

\* a producer ended on a failed Write (no stop signal, no cancellation) while
\* the read loop is reading and the other instrument's producer is running
C15_Witness ==
    \E i, j \in Instr :
        /\ i # j
        /\ ppc[i] = "exited" /\ ~stop_signals[i] /\ ~cancelled
        /\ rpc = "read"
        /\ Live(j) /\ ~stop_signals[j]

\* C16: once the stop signal of a live producer is set it stays set while the
\* producer is live; the producer enters no Write any more, so it writes at
\* most the one update whose Write it had entered before; and it terminates.
C16_StopSignalHonoured ==
    /\ [][\A i \in Instr :
             (i \in DOMAIN stop_signals /\ stop_signals[i] /\ Live(i))
             => /\ stop_signals'[i]
                /\ ppc'[i] = "write" => ppc[i] = "write"
                /\ update_count'[i] <= update_count[i] + 1
                /\ ppc[i] # "write" => update_count'[i] = update_count[i]]_vars
    /\ \A i \in Instr :
          (i \in DOMAIN stop_signals /\ stop_signals[i] /\ Live(i))
          ~> (ppc[i] = "exited")

\* a producer that was signalled while inside Write has written that update
\* and has then terminated
C16_Witness ==
    \E i \in Instr :
        /\ ppc[i] = "exited"
        /\ stop_signals[i]
        /\ ~cancelled
        /\ \E k, m \in 1..Len(sent) :
              /\ k < m
              /\ sent[k] = UnsubscribeMsg(i)
              /\ sent[m] = IncrementalMsg(i, 0)
        /\ update_count[i] = 1

\* C17: once the read loop has ended, the handler returns.
C17_TeardownCompletes == (rpc \in Teardown) ~> (rpc = "done")

\* the handler has returned on a connection on which both instruments had a
\* producer and one of them was unsubscribed
C17_Witness ==
    /\ rpc = "done"
    /\ \A i \in Instr : started[i] = 1
    /\ \E i \in Instr : unsubscribes[i] = 1
    /\ Len(sent) >= 4

\* the step in which the read loop decodes an UNSUBSCRIBE for i
UnsubscribeStep(i) == unsubscribes'[i] = unsubscribes[i] + 1

\* C20: decoding an UNSUBSCRIBE for i creates no entry in either map and
\* touches no other instrument's stop signal or producer; when i has no
\* entry nothing of the two maps changes, and when i has a thread only i's
\* stop signal changes (it is set) and i's entry stays.
C20_UnsubscribeFrame ==
    [][\A i \in Instr :
          UnsubscribeStep(i)
          => /\ update_threads' = update_threads
             /\ DOMAIN stop_signals' = DOMAIN stop_signals
             /\ \A j \in DOMAIN stop_signals \ {i} :
                   stop_signals'[j] = stop_signals[j]
             /\ ppc' = ppc
             /\ update_count' = update_count
             /\ started' = started
             /\ i \notin DOMAIN update_threads => stop_signals' = stop_signals
             /\ i \in DOMAIN update_threads
                   => /\ i \in DOMAIN update_threads'
                      /\ stop_signals'[i]]_vars

\* an UNSUBSCRIBE for an instrument that was never subscribed has been
\* processed while the other instrument is subscribed and not signalled
C20_Witness ==
    /\ rpc = "read"
    /\ request.action = "UNSUBSCRIBE"
    /\ started[request.instrument_id] = 0
    /\ request.instrument_id \notin DOMAIN stop_signals
    /\ \E j \in Instr : started[j] = 1 /\ ~stop_signals[j] /\ Live(j)

\* SUBSCRIBE requests on the wire, in order
SubscribesOn(w) == SelectSeq(w, LAMBDA r : r.action = "SUBSCRIBE")

\* C18: the SUBSCRIBE requests written are those of the first n list
\* elements, in list order, n being the number of elements the writer task
\* has written; after a failed Write the task is finished and n is the
\* number written before the failure, and a task that finishes without a
\* failure has written the whole list.
C18_SubscribesArePrefix ==
    LET n == widx + (IF wpc = "sleep" THEN 1 ELSE 0) IN
    /\ n <= Len(instrument_ids)
    /\ SubscribesOn(wire) = [k \in 1..n |-> SubscribeRequest(instrument_ids[k])]

\* the Write for the second of three list elements failed: one SUBSCRIBE is
\* on the wire and the task is finished
C18_Witness ==
    /\ wpc = "finished"
    /\ Len(instrument_ids) = 3
    /\ widx = 1
    /\ Len(SubscribesOn(wire)) = 1

\* messages of the server's stream the client has applied
Applied == IF cpc = "apply" THEN rcvd - 1 ELSE rcvd

\* the last snapshot for i the client has applied is the empty one, the
\* server's acknowledgement of an UNSUBSCRIBE
AckIsLastSnapshot(i) ==
    \E k \in 1..Applied :
        /\ sent[k] = UnsubscribeMsg(i)
        /\ \A m \in (k + 1)..Applied : sent[m] # SnapshotMsg(i)

\* C19: from the moment the client has applied the server's empty snapshot
\* for i until it applies a later non-empty snapshot for i, its book for i
\* has no bid and no ask level.
C19_BookEmptyAfterAck ==
    \A i \in Instr :
        AckIsLastSnapshot(i)
        => /\ Entry(order_books_bids_, i) = EmptySide
           /\ Entry(order_books_asks_, i) = EmptySide

====
